---- MODULE Spec2Model ----
(***************************************************************************)
(* Model of the Lambda handler of src/request/main.go: ACMPCAHandler       *)
(* dispatches on the X-Amz-Target header to one of two policy-gated flows  *)
(* (venafiACMPCAIssueCertificateRequest, venafiACMRequestCertificate), to  *)
(* the pass-through flow, or to the fixed 405 answer.                      *)
(*                                                                         *)
(* One invocation is modelled step by step; every call the handler makes   *)
(* to a library or collaborator is appended to `trace`, so that the order  *)
(* and number of calls can be stated.  Collaborators (policy store,        *)
(* validator, AWS config loader, backend, JSON encoder) are opaque: their  *)
(* outcome is chosen when they are called.                                 *)
(*                                                                         *)
(* Strings that are built by formatting are sequences of tokens; a byte    *)
(* string that carries base64 layers is the sequence of its layers, e.g.   *)
(* <<"b64", "b64", "CSR">> is base64(base64(<CSR bytes>)).                 *)
(***************************************************************************)
EXTENDS Integers, Sequences, FiniteSets, TLC

VARIABLES
    pc,           \* position of the handler
    request,      \* events.APIGatewayProxyRequest being handled
    certRequest,  \* the decoded payload (local variable of the gated flows)
    req,          \* certificate.Request built for the validator
    trace,        \* calls made during this invocation, in order
    passThruArgs, \* arguments of the calls to passThru
    awsCfgLoaded, \* whether awsCfg holds a loaded configuration
    backendResp,  \* the backend's response (csrResp / certResp)
    response      \* events.APIGatewayProxyResponse returned by the handler

vars == <<pc, request, certRequest, req, trace, passThruArgs, awsCfgLoaded,
          backendResp, response>>

-----------------------------------------------------------------------------
(* Bounds of the model *)

MaxSANs == 1
MaxB64Layers == 2

-----------------------------------------------------------------------------
(* Constants of the program *)

acmRequestCertificate == "CertificateManager.RequestCertificate"
acmpcaIssueCertificate == "ACMPrivateCA.IssueCertificate"
\* Declared in a file of the package that is not part of the sources at hand.
acmpcaListCertificateAuthorities == "list-certificate-authorities"
acmpcaGetCertificate == "get-certificate"
errUnmarshalJson == "errUnmarshalJson"

StatusOK == 200
StatusForbidden == 403
StatusMethodNotAllowed == 405
StatusUnprocessableEntity == 422
StatusFailedDependency == 424
StatusInternalServerError == 500

-----------------------------------------------------------------------------
(* Inputs *)

TargetHeader == "X-Amz-Target"

TargetValues ==
    { acmpcaIssueCertificate, acmRequestCertificate,
      acmpcaListCertificateAuthorities, acmpcaGetCertificate,
      "ACMPrivateCA.RevokeCertificate", "" }

\* Header maps: no headers, the target header, or the same header under a
\* different spelling (Go map lookup is case-sensitive).
HeaderMaps ==
    { << >> }
    \cup { [k \in {TargetHeader} |-> v] : v \in TargetValues }
    \cup { [k \in {"x-amz-target"} |-> v] :
             v \in {acmpcaIssueCertificate, acmpcaGetCertificate} }

RECURSIVE Layers(_, _)
Layers(n, core) == IF n = 0 THEN <<core>> ELSE <<"b64">> \o Layers(n - 1, core)

\* Texts a Csr JSON string can hold: empty, or a core (a signing request or
\* something else) under 0..MaxB64Layers layers of base64.
CsrTexts ==
    { << >> } \cup { Layers(n, c) : n \in 0..MaxB64Layers, c \in {"CSR", "junk"} }

DNSNameValues == { "alt.example.com" }

RECURSIVE SeqsUpTo(_, _)
SeqsUpTo(S, n) ==
    IF n = 0 THEN { << >> }
    ELSE LET shorter == SeqsUpTo(S, n - 1)
         IN  shorter \cup { Append(s, x) : s \in { t \in shorter : Len(t) = n - 1 }, x \in S }

\* A JSON member is absent, or present with a string value, or (VenafiZone)
\* present with a value of the wrong JSON type.
CsrMembers ==
    { [kind |-> "absent", val |-> << >>] }
    \cup { [kind |-> "string", val |-> t] : t \in CsrTexts }

DomainNameMembers ==
    { [kind |-> "absent", val |-> ""], [kind |-> "string", val |-> "test.example.com"] }

VenafiZoneMembers ==
    { [kind |-> "absent", val |-> ""], [kind |-> "number", val |-> ""] }
    \cup { [kind |-> "string", val |-> z] : z \in {"", "Default", "Ghost"} }

\* A body that is not a JSON document at all.
NotJSON ==
    [json |-> FALSE,
     Csr |-> [kind |-> "absent", val |-> << >>],
     DomainName |-> [kind |-> "absent", val |-> ""],
     SubjectAlternativeNames |-> << >>,
     VenafiZone |-> [kind |-> "absent", val |-> ""]]

Bodies ==
    { NotJSON }
    \cup [json : {TRUE},
          Csr : CsrMembers,
          DomainName : DomainNameMembers,
          SubjectAlternativeNames : SeqsUpTo(DNSNameValues, MaxSANs),
          VenafiZone : VenafiZoneMembers]

Requests == [Headers : HeaderMaps, Body : Bodies]

\* Errors the collaborators can report.
PolicyErrors == { "zone not found" }
ValidationErrors == { "common name is not allowed" }
ConfigErrors == { "no credentials" }
BackendErrors == { "AccessDeniedException" }
MarshalErrors == { "unsupported type" }
BackendResults == { "arn:aws:acm-pca:certificate/1" }

-----------------------------------------------------------------------------
(* Values and pure functions *)

\* request.Headers[k]: a missing key reads as the empty string.
HeaderGet(h, k) == IF k \in DOMAIN h THEN h[k] ELSE ""

\* base64.StdEncoding.DecodeString
Base64Valid(text) == text = << >> \/ Head(text) = "b64"
Base64Decode(text) == IF text = << >> THEN << >> ELSE Tail(text)

\* certificate.Request.SetCSR accepts bytes that are a signing request.
IsCSR(bytes) == bytes = <<"CSR">>

\* Zero values of the structs.
ZeroCertRequest ==
    [Csr |-> << >>,
     DomainName |-> [nil |-> TRUE, val |-> ""],
     SubjectAlternativeNames |-> << >>,
     VenafiZone |-> ""]

ZeroRequest ==
    [CommonName |-> "", DNSNames |-> << >>, csr |-> << >>,
     CsrOrigin |-> "LocalGeneratedCSR"]

NoResponse == [StatusCode |-> 0, Body |-> << >>]

ZeroAPIRequest == [Headers |-> << >>, Body |-> NotJSON]

\* json.Unmarshal into ACMPCAIssueCertificateRequest: Csr is a []byte, which
\* encoding/json reads from a base64 string; VenafiZone is a string; members
\* the struct does not name are ignored; an absent member leaves the zero value.
UnmarshalIssue(body) ==
    IF ~body.json THEN [err |-> "invalid character", val |-> ZeroCertRequest]
    ELSE IF body.VenafiZone.kind = "number"
        THEN [err |-> "cannot unmarshal number", val |-> ZeroCertRequest]
    ELSE IF body.Csr.kind = "string" /\ ~Base64Valid(body.Csr.val)
        THEN [err |-> "illegal base64 data", val |-> ZeroCertRequest]
    ELSE [err |-> "",
          val |-> [ZeroCertRequest EXCEPT
                     !.Csr = Base64Decode(body.Csr.val),
                     !.VenafiZone = body.VenafiZone.val]]

\* json.Unmarshal into VenafiRequestCertificateInput: DomainName is a *string,
\* nil when the member is absent.
UnmarshalRequest(body) ==
    IF ~body.json THEN [err |-> "invalid character", val |-> ZeroCertRequest]
    ELSE IF body.VenafiZone.kind = "number"
        THEN [err |-> "cannot unmarshal number", val |-> ZeroCertRequest]
    ELSE [err |-> "",
          val |-> [ZeroCertRequest EXCEPT
                     !.DomainName = [nil |-> body.DomainName.kind = "absent",
                                     val |-> body.DomainName.val],
                     !.SubjectAlternativeNames = body.SubjectAlternativeNames,
                     !.VenafiZone = body.VenafiZone.val]]

\* if certRequest.VenafiZone == "" { certRequest.VenafiZone = "Default" }
ZoneOrDefault_Identity(zone) == zone
ZoneOrDefault(zone) == IF zone = "" THEN "Default" ELSE zone

\* clientError: the status with the message in the { "msg" : "%s" } envelope.
EnvelopeOpen == "{ \"msg\" : \""
EnvelopeClose == "\" }"
clientError(status, body) ==
    [StatusCode |-> status, Body |-> <<EnvelopeOpen>> \o body \o <<EnvelopeClose>>]

\* json.Marshal of the backend's response.
MarshalJSON(resp) == <<"{\"CertificateArn\":\"", resp, "\"}">>

\* The switch of ACMPCAHandler on the X-Amz-Target header.
Dispatch_DefaultIssues(target) ==
    CASE target = acmpcaIssueCertificate -> "issue"
      [] target = acmRequestCertificate -> "request"
      [] target = acmpcaListCertificateAuthorities -> "passThru"
      [] target = acmpcaGetCertificate -> "passThru"
      [] OTHER -> "issue"
Dispatch_ListIsGated(target) ==
    CASE target = acmpcaIssueCertificate -> "issue"
      [] target = acmRequestCertificate -> "request"
      [] target = acmpcaListCertificateAuthorities -> "issue"
      [] target = acmpcaGetCertificate -> "passThru"
      [] OTHER -> "default"
Dispatch(target) ==
    CASE target = acmpcaIssueCertificate -> "issue"
      [] target = acmRequestCertificate -> "request"
      [] target = acmpcaListCertificateAuthorities -> "passThru"
      [] target = acmpcaGetCertificate -> "passThru"
      [] OTHER -> "default"

\* One call of a library or collaborator: err is "" when it succeeded.
Call(fn, arg, err) == [fn |-> fn, arg |-> arg, err |-> err]

Finish(resp) == /\ response' = resp
                /\ pc' = "returned"

-----------------------------------------------------------------------------
(* Initial state: the function is loaded and no request has been handled *)

Init ==
    /\ pc = "idle"
    /\ request = ZeroAPIRequest
    /\ certRequest = ZeroCertRequest
    /\ req = ZeroRequest
    /\ trace = << >>
    /\ passThruArgs = << >>
    /\ awsCfgLoaded = FALSE
    /\ backendResp = ""
    /\ response = NoResponse

-----------------------------------------------------------------------------
(* ACMPCAHandler: an invocation starts with fresh locals and dispatches *)

ACMPCAHandler ==
    /\ pc = "idle"
    /\ \E r \in Requests :
         LET target == HeaderGet(r.Headers, TargetHeader)
             route == Dispatch(target)
         IN  /\ request' = r
             /\ certRequest' = ZeroCertRequest
             /\ req' = ZeroRequest
             /\ trace' = << >>
             /\ awsCfgLoaded' = FALSE
             /\ backendResp' = ""
             /\ CASE route = "issue" ->
                       /\ pc' = "issue_decode"
                       /\ passThruArgs' = << >>
                       /\ response' = NoResponse
                  [] route = "request" ->
                       /\ pc' = "request_decode"
                       /\ passThruArgs' = << >>
                       /\ response' = NoResponse
                  [] route = "passThru" ->
                       /\ pc' = "passThru"
                       /\ passThruArgs' = <<[request |-> r, target |-> target]>>
                       /\ response' = NoResponse
                  [] OTHER ->
                       /\ passThruArgs' = << >>
                       /\ Finish(clientError(StatusMethodNotAllowed,
                                             <<"Can't determine requested method">>))

-----------------------------------------------------------------------------
(* venafiACMPCAIssueCertificateRequest *)

\* Lines 79-97: decode the payload, decode and parse the CSR, default the zone.
IssueDecode_SetCSRUnchecked ==
    /\ pc = "issue_decode"
    /\ UNCHANGED <<request, passThruArgs, awsCfgLoaded, backendResp>>
    /\ LET u == UnmarshalIssue(request.Body)
           csr == Base64Decode(u.val.Csr)
       IN  IF u.err # ""
           THEN /\ trace' = Append(trace, Call("json.Unmarshal", << >>, u.err))
                /\ Finish(clientError(StatusUnprocessableEntity,
                                      <<errUnmarshalJson, acmpcaIssueCertificate, u.err>>))
                /\ UNCHANGED <<certRequest, req>>
           ELSE IF ~Base64Valid(u.val.Csr)
           THEN /\ trace' = trace \o <<Call("json.Unmarshal", << >>, ""),
                                       Call("base64.DecodeString", << >>, "illegal base64 data")>>
                /\ certRequest' = u.val
                /\ Finish(clientError(StatusUnprocessableEntity,
                                      <<"Can t decode csr from base64">>))
                /\ UNCHANGED req
           ELSE /\ trace' = trace \o <<Call("json.Unmarshal", << >>, ""),
                                       Call("base64.DecodeString", << >>, ""),
                                       Call("SetCSR", << >>,
                                            IF IsCSR(csr) THEN "" ELSE "asn1: structure error")>>
                /\ certRequest' = [u.val EXCEPT !.VenafiZone = ZoneOrDefault(@)]
                /\ req' = [ZeroRequest EXCEPT !.csr = csr]
                /\ pc' = "issue_policy"
                /\ UNCHANGED response
IssueDecode ==
    /\ pc = "issue_decode"
    /\ UNCHANGED <<request, passThruArgs, awsCfgLoaded, backendResp>>
    /\ LET u == UnmarshalIssue(request.Body)
           csr == Base64Decode(u.val.Csr)
       IN  IF u.err # ""
           THEN /\ trace' = Append(trace, Call("json.Unmarshal", << >>, u.err))
                /\ Finish(clientError(StatusUnprocessableEntity,
                                      <<errUnmarshalJson, acmpcaIssueCertificate, u.err>>))
                /\ UNCHANGED <<certRequest, req>>
           ELSE IF ~Base64Valid(u.val.Csr)
           THEN /\ trace' = trace \o <<Call("json.Unmarshal", << >>, ""),
                                       Call("base64.DecodeString", << >>, "illegal base64 data")>>
                /\ certRequest' = u.val
                /\ Finish(clientError(StatusUnprocessableEntity,
                                      <<"Can t decode csr from base64">>))
                /\ UNCHANGED req
           ELSE IF ~IsCSR(csr)
           THEN /\ trace' = trace \o <<Call("json.Unmarshal", << >>, ""),
                                       Call("base64.DecodeString", << >>, ""),
                                       Call("SetCSR", << >>, "asn1: structure error")>>
                /\ certRequest' = u.val
                /\ Finish(clientError(StatusUnprocessableEntity,
                                      <<"Can't parse certificate request">>))
                /\ UNCHANGED req
           ELSE /\ trace' = trace \o <<Call("json.Unmarshal", << >>, ""),
                                       Call("base64.DecodeString", << >>, ""),
                                       Call("SetCSR", << >>, "")>>
                /\ certRequest' = [u.val EXCEPT !.VenafiZone = ZoneOrDefault(@)]
                /\ req' = [ZeroRequest EXCEPT !.csr = csr]
                /\ pc' = "issue_policy"
                /\ UNCHANGED response

\* Lines 99-102: common.GetPolicy(certRequest.VenafiZone)
IssueGetPolicy_Forbidden ==
    /\ pc = "issue_policy"
    /\ UNCHANGED <<request, certRequest, req, passThruArgs, awsCfgLoaded, backendResp>>
    /\ \/ /\ trace' = Append(trace, Call("GetPolicy", <<certRequest.VenafiZone>>, ""))
          /\ pc' = "issue_validate"
          /\ UNCHANGED response
       \/ \E e \in PolicyErrors :
            /\ trace' = Append(trace, Call("GetPolicy", <<certRequest.VenafiZone>>, e))
            /\ Finish(clientError(StatusForbidden,
                                  <<"Failed get policy from database: ", e>>))
IssueGetPolicy ==
    /\ pc = "issue_policy"
    /\ UNCHANGED <<request, certRequest, req, passThruArgs, awsCfgLoaded, backendResp>>
    /\ \/ /\ trace' = Append(trace, Call("GetPolicy", <<certRequest.VenafiZone>>, ""))
          /\ pc' = "issue_validate"
          /\ UNCHANGED response
       \/ \E e \in PolicyErrors :
            /\ trace' = Append(trace, Call("GetPolicy", <<certRequest.VenafiZone>>, e))
            /\ Finish(clientError(StatusFailedDependency,
                                  <<"Failed get policy from database: ", e>>))

\* Lines 103-106: policy.ValidateCertificateRequest(&req)
IssueValidate ==
    /\ pc = "issue_validate"
    /\ UNCHANGED <<request, certRequest, req, passThruArgs, awsCfgLoaded, backendResp>>
    /\ \/ /\ trace' = Append(trace, Call("ValidateCertificateRequest", << >>, ""))
          /\ pc' = "issue_config"
          /\ UNCHANGED response
       \/ \E e \in ValidationErrors :
            /\ trace' = Append(trace, Call("ValidateCertificateRequest", << >>, e))
            /\ Finish(clientError(StatusForbidden, <<e>>))

\* Lines 109-112: external.LoadDefaultAWSConfig(); an error ends the request.
IssueLoadConfig ==
    /\ pc = "issue_config"
    /\ UNCHANGED <<request, certRequest, req, passThruArgs, backendResp>>
    /\ \/ /\ trace' = Append(trace, Call("LoadDefaultAWSConfig", << >>, ""))
          /\ awsCfgLoaded' = TRUE
          /\ pc' = "issue_send"
          /\ UNCHANGED response
       \/ \E e \in ConfigErrors :
            /\ trace' = Append(trace, Call("LoadDefaultAWSConfig", << >>, e))
            /\ UNCHANGED awsCfgLoaded
            /\ Finish(clientError(StatusInternalServerError,
                                  <<"Error loading client: ", e>>))

\* Lines 113-119: acmpca.New, IssueCertificateRequest, Send
IssueSend_Retry ==
    /\ pc = "issue_send"
    /\ UNCHANGED <<request, certRequest, req, passThruArgs, awsCfgLoaded>>
    /\ \/ \E r \in BackendResults :
            /\ trace' = Append(trace, Call("Send", <<acmpcaIssueCertificate>>, ""))
            /\ backendResp' = r
            /\ pc' = "issue_marshal"
            /\ UNCHANGED response
       \/ \E e \in BackendErrors :
            /\ trace' = Append(trace, Call("Send", <<acmpcaIssueCertificate>>, e))
            /\ UNCHANGED backendResp
            /\ IF trace[Len(trace)].fn # "Send"
               THEN UNCHANGED <<pc, response>>
               ELSE Finish(clientError(StatusInternalServerError,
                                       <<"could not get certificate response: ", e>>))
IssueSend ==
    /\ pc = "issue_send"
    /\ UNCHANGED <<request, certRequest, req, passThruArgs, awsCfgLoaded>>
    /\ \/ \E r \in BackendResults :
            /\ trace' = Append(trace, Call("Send", <<acmpcaIssueCertificate>>, ""))
            /\ backendResp' = r
            /\ pc' = "issue_marshal"
            /\ UNCHANGED response
       \/ \E e \in BackendErrors :
            /\ trace' = Append(trace, Call("Send", <<acmpcaIssueCertificate>>, e))
            /\ UNCHANGED backendResp
            /\ Finish(clientError(StatusInternalServerError,
                                  <<"could not get certificate response: ", e>>))

\* Lines 121-129: json.Marshal(csrResp) and the 200 response
IssueMarshal ==
    /\ pc = "issue_marshal"
    /\ UNCHANGED <<request, certRequest, req, passThruArgs, awsCfgLoaded, backendResp>>
    /\ \/ /\ trace' = Append(trace, Call("json.Marshal", << >>, ""))
          /\ Finish([StatusCode |-> StatusOK, Body |-> MarshalJSON(backendResp)])
       \/ \E e \in MarshalErrors :
            /\ trace' = Append(trace, Call("json.Marshal", << >>, e))
            /\ Finish(clientError(StatusUnprocessableEntity,
                        <<"Error marshaling response JSON for target ",
                          acmpcaIssueCertificate, ": ", e>>))

-----------------------------------------------------------------------------
(* venafiACMRequestCertificate *)

\* Lines 135-148: decode the payload, build req from DomainName and
\* SubjectAlternativeNames, default the zone.  *certRequest.DomainName
\* dereferences a nil pointer when the member is absent: the goroutine panics
\* and the handler returns no response.
RequestDecode_IgnoreErr ==
    /\ pc = "request_decode"
    /\ UNCHANGED <<request, passThruArgs, awsCfgLoaded, backendResp>>
    /\ LET u == UnmarshalRequest(request.Body)
       IN  IF u.val.DomainName.nil
           THEN /\ trace' = Append(trace, Call("json.Unmarshal", << >>, u.err))
                /\ certRequest' = u.val
                /\ pc' = "panicked"
                /\ UNCHANGED <<req, response>>
           ELSE /\ trace' = Append(trace, Call("json.Unmarshal", << >>, u.err))
                /\ certRequest' = [u.val EXCEPT !.VenafiZone = ZoneOrDefault(@)]
                /\ req' = [ZeroRequest EXCEPT
                             !.CommonName = u.val.DomainName.val,
                             !.DNSNames = u.val.SubjectAlternativeNames,
                             !.CsrOrigin = "ServiceGeneratedCSR"]
                /\ pc' = "request_policy"
                /\ UNCHANGED response
RequestDecode ==
    /\ pc = "request_decode"
    /\ UNCHANGED <<request, passThruArgs, awsCfgLoaded, backendResp>>
    /\ LET u == UnmarshalRequest(request.Body)
       IN  IF u.err # ""
           THEN /\ trace' = Append(trace, Call("json.Unmarshal", << >>, u.err))
                /\ Finish(clientError(StatusUnprocessableEntity,
                                      <<"Error unmarshaling JSON: ", u.err>>))
                /\ UNCHANGED <<certRequest, req>>
           ELSE IF u.val.DomainName.nil
           THEN /\ trace' = Append(trace, Call("json.Unmarshal", << >>, ""))
                /\ certRequest' = u.val
                /\ pc' = "panicked"
                /\ UNCHANGED <<req, response>>
           ELSE /\ trace' = Append(trace, Call("json.Unmarshal", << >>, ""))
                /\ certRequest' = [u.val EXCEPT !.VenafiZone = ZoneOrDefault(@)]
                /\ req' = [ZeroRequest EXCEPT
                             !.CommonName = u.val.DomainName.val,
                             !.DNSNames = u.val.SubjectAlternativeNames,
                             !.CsrOrigin = "ServiceGeneratedCSR"]
                /\ pc' = "request_policy"
                /\ UNCHANGED response

\* Lines 149-152: common.GetPolicy(certRequest.VenafiZone)
RequestGetPolicy ==
    /\ pc = "request_policy"
    /\ UNCHANGED <<request, certRequest, req, passThruArgs, awsCfgLoaded, backendResp>>
    /\ \/ /\ trace' = Append(trace, Call("GetPolicy", <<certRequest.VenafiZone>>, ""))
          /\ pc' = "request_validate"
          /\ UNCHANGED response
       \/ \E e \in PolicyErrors :
            /\ trace' = Append(trace, Call("GetPolicy", <<certRequest.VenafiZone>>, e))
            /\ Finish(clientError(StatusFailedDependency,
                                  <<"Failed get policy from database: ", e>>))

\* Lines 153-156: policy.ValidateCertificateRequest(&req)
RequestValidate_FallThrough ==
    /\ pc = "request_validate"
    /\ UNCHANGED <<request, certRequest, req, passThruArgs, awsCfgLoaded, backendResp>>
    /\ \E e \in ValidationErrors \cup {""} :
          /\ trace' = Append(trace, Call("ValidateCertificateRequest", << >>, e))
          /\ pc' = "request_config"
          /\ UNCHANGED response
RequestValidate ==
    /\ pc = "request_validate"
    /\ UNCHANGED <<request, certRequest, req, passThruArgs, awsCfgLoaded, backendResp>>
    /\ \/ /\ trace' = Append(trace, Call("ValidateCertificateRequest", << >>, ""))
          /\ pc' = "request_config"
          /\ UNCHANGED response
       \/ \E e \in ValidationErrors :
            /\ trace' = Append(trace, Call("ValidateCertificateRequest", << >>, e))
            /\ Finish(clientError(StatusForbidden, <<e>>))

\* Lines 157-160: external.LoadDefaultAWSConfig(); an error is printed and
\* the flow goes on with the zero configuration.
RequestLoadConfig ==
    /\ pc = "request_config"
    /\ UNCHANGED <<request, certRequest, req, passThruArgs, backendResp, response>>
    /\ \E e \in ConfigErrors \cup {""} :
          /\ trace' = Append(trace, Call("LoadDefaultAWSConfig", << >>, e))
          /\ awsCfgLoaded' = (e = "")
          /\ pc' = "request_send"

\* Lines 161-168: acm.New, RequestCertificateRequest, Send
RequestSend ==
    /\ pc = "request_send"
    /\ UNCHANGED <<request, certRequest, req, passThruArgs, awsCfgLoaded>>
    /\ \/ \E r \in BackendResults :
            /\ trace' = Append(trace, Call("Send", <<acmRequestCertificate>>, ""))
            /\ backendResp' = r
            /\ pc' = "request_marshal"
            /\ UNCHANGED response
       \/ \E e \in BackendErrors :
            /\ trace' = Append(trace, Call("Send", <<acmRequestCertificate>>, e))
            /\ UNCHANGED backendResp
            /\ Finish(clientError(StatusInternalServerError,
                                  <<"could not get certificate response: ", e>>))

\* Lines 170-178: json.Marshal(certResp) and the 200 response
RequestMarshal ==
    /\ pc = "request_marshal"
    /\ UNCHANGED <<request, certRequest, req, passThruArgs, awsCfgLoaded, backendResp>>
    /\ \/ /\ trace' = Append(trace, Call("json.Marshal", << >>, ""))
          /\ Finish([StatusCode |-> StatusOK, Body |-> MarshalJSON(backendResp)])
       \/ \E e \in MarshalErrors :
            /\ trace' = Append(trace, Call("json.Marshal", << >>, e))
            /\ Finish(clientError(StatusUnprocessableEntity,
                                  <<"Error marshaling response JSON: ", e>>))

-----------------------------------------------------------------------------
(* passThru: its body is not among the sources; the design describes it as  *)
(* one backend invocation with the original payload, the backend's answer  *)
(* relayed, and no policy involvement.                                     *)

passThru ==
    /\ pc = "passThru"
    /\ UNCHANGED <<request, certRequest, req, passThruArgs, awsCfgLoaded>>
    /\ \/ \E r \in BackendResults :
            /\ trace' = Append(trace, Call("Send", <<passThruArgs[1].target>>, ""))
            /\ backendResp' = r
            /\ Finish([StatusCode |-> StatusOK, Body |-> MarshalJSON(r)])
       \/ \E e \in BackendErrors :
            /\ trace' = Append(trace, Call("Send", <<passThruArgs[1].target>>, e))
            /\ UNCHANGED backendResp
            /\ Finish(clientError(StatusInternalServerError, <<e>>))

-----------------------------------------------------------------------------
(* lambda.Start: once an invocation is over (a response or a panic), the     *)
(* function waits for the next event; nothing is kept between invocations. *)

NextInvocation ==
    /\ pc \in {"returned", "panicked"}
    /\ pc' = "idle"
    /\ request' = ZeroAPIRequest
    /\ certRequest' = ZeroCertRequest
    /\ req' = ZeroRequest
    /\ trace' = << >>
    /\ passThruArgs' = << >>
    /\ awsCfgLoaded' = FALSE
    /\ backendResp' = ""
    /\ response' = NoResponse

-----------------------------------------------------------------------------

Next ==
    \/ ACMPCAHandler
    \/ IssueDecode
    \/ IssueGetPolicy
    \/ IssueValidate
    \/ IssueLoadConfig
    \/ IssueSend
    \/ IssueMarshal
    \/ RequestDecode
    \/ RequestGetPolicy
    \/ RequestValidate
    \/ RequestLoadConfig
    \/ RequestSend
    \/ RequestMarshal
    \/ passThru
    \/ NextInvocation

Spec == Init /\ [][Next]_vars

-----------------------------------------------------------------------------
(* Vocabulary of the properties *)

Target == HeaderGet(request.Headers, TargetHeader)
Gated == pc # "idle" /\ Target \in {acmpcaIssueCertificate, acmRequestCertificate}
Ended == pc \in {"returned", "panicked"}

CallsOf(fn) == { i \in 1..Len(trace) : trace[i].fn = fn }
FailedCallsOf(fn) == { i \in CallsOf(fn) : trace[i].err # "" }
NoCall(fn) == CallsOf(fn) = {}

IsEnvelope(body) ==
    /\ Len(body) >= 3
    /\ body[1] = EnvelopeOpen
    /\ body[Len(body)] = EnvelopeClose

DecodeCalls == {"json.Unmarshal", "base64.DecodeString", "SetCSR"}

-----------------------------------------------------------------------------
(* Properties *)

\* C1: in a gated flow, when ValidateCertificateRequest returns an error, the
\* backend's Send is never called and the handler has returned 403 with the
\* validator's reason as the message.
C1_RejectedNeverReachesBackend ==
    Gated =>
      \A i \in FailedCallsOf("ValidateCertificateRequest") :
        /\ NoCall("Send")
        /\ pc = "returned"
        /\ response = [StatusCode |-> StatusForbidden,
                       Body |-> <<EnvelopeOpen, trace[i].err, EnvelopeClose>>]

C1_Witness ==
    /\ pc = "returned"
    /\ Target = acmRequestCertificate
    /\ FailedCallsOf("ValidateCertificateRequest") # {}
    /\ response.StatusCode = StatusForbidden

\* C2 (as claimed): in both gated flows a failed LoadDefaultAWSConfig is fatal:
\* Send is not called and the request ends with a failure response.
C2_ConfigErrorIsFatal ==
    Gated =>
      (FailedCallsOf("LoadDefaultAWSConfig") # {} =>
         /\ NoCall("Send")
         /\ Ended => /\ pc = "returned"
                     /\ response.StatusCode # StatusOK
                     /\ IsEnvelope(response.Body))

\* C3 (as claimed): every invocation that is over has returned one response
\* with a status and a body; the handler never aborts.
C3_AlwaysATerminalResponse ==
    Ended => /\ pc = "returned"
             /\ response # NoResponse
             /\ response.StatusCode # 0

\* C4: every call of GetPolicy gets the payload's VenafiZone when that is a
\* non-empty string and "Default" when it is absent or empty; never "".
C4_ZoneArgument ==
    \A i \in CallsOf("GetPolicy") :
      /\ trace[i].arg =
           << IF request.Body.VenafiZone.kind = "string" /\ request.Body.VenafiZone.val # ""
              THEN request.Body.VenafiZone.val
              ELSE "Default" >>
      /\ trace[i].arg # <<"">>

C4_Witness ==
    /\ Target = acmpcaIssueCertificate
    /\ request.Body.VenafiZone.kind = "absent"
    /\ \E i \in CallsOf("GetPolicy") : trace[i].arg = <<"Default">>

\* C5: in a gated flow, when a decoding step (json.Unmarshal, the base64
\* decoding of the Csr, SetCSR) fails, the handler has returned 422 and
\* GetPolicy, ValidateCertificateRequest and Send were not called.
C5_DecodeFailureIs422 ==
    Gated =>
      ((\E fn \in DecodeCalls : FailedCallsOf(fn) # {}) =>
         /\ pc = "returned"
         /\ response.StatusCode = StatusUnprocessableEntity
         /\ NoCall("GetPolicy")
         /\ NoCall("ValidateCertificateRequest")
         /\ NoCall("LoadDefaultAWSConfig")
         /\ NoCall("Send"))

C5_Witness ==
    /\ pc = "returned"
    /\ Target = acmpcaIssueCertificate
    /\ request.Body.Csr.val = <<"b64", "b64", "junk">>
    /\ FailedCallsOf("SetCSR") # {}
    /\ response.StatusCode = StatusUnprocessableEntity

\* C6: in a gated flow, when GetPolicy returns an error, the handler has
\* returned 424, which is not the 403 of a rejection, and neither
\* ValidateCertificateRequest nor Send was called.
C6_PolicyErrorIs424 ==
    Gated =>
      (FailedCallsOf("GetPolicy") # {} =>
         /\ pc = "returned"
         /\ response.StatusCode = StatusFailedDependency
         /\ response.StatusCode # StatusForbidden
         /\ NoCall("ValidateCertificateRequest")
         /\ NoCall("Send"))

C6_Witness ==
    /\ pc = "returned"
    /\ Target = acmpcaIssueCertificate
    /\ request.Body.VenafiZone.val = "Ghost"
    /\ FailedCallsOf("GetPolicy") # {}
    /\ response.StatusCode = StatusFailedDependency

\* C7: a request whose X-Amz-Target is absent or is none of the four
\* registered identifiers is answered 405 with the fixed message, whatever
\* the payload, and nothing is called: no decoder, resolver, validator,
\* backend or pass-through.
C7_UnknownTargetIs405 ==
    (pc # "idle" /\ Target \notin { acmpcaIssueCertificate, acmRequestCertificate,
                                    acmpcaListCertificateAuthorities,
                                    acmpcaGetCertificate }) =>
      /\ pc = "returned"
      /\ response = [StatusCode |-> StatusMethodNotAllowed,
                     Body |-> <<EnvelopeOpen, "Can't determine requested method",
                                EnvelopeClose>>]
      /\ trace = << >>
      /\ passThruArgs = << >>

C7_Witness ==
    /\ pc = "returned"
    /\ TargetHeader \notin DOMAIN request.Headers
    /\ request.Body.json
    /\ request.Body.Csr.val = <<"b64", "b64", "CSR">>
    /\ response.StatusCode = StatusMethodNotAllowed

\* C8: for the two pass-through keys the dispatcher calls passThru once with
\* the request it received and the key, the gated flows are not entered, and
\* neither GetPolicy nor ValidateCertificateRequest is called.
C8_PassThroughSkipsPolicy ==
    (pc # "idle" /\ Target \in {acmpcaListCertificateAuthorities, acmpcaGetCertificate}) =>
      /\ passThruArgs = <<[request |-> request, target |-> Target]>>
      /\ pc \in {"passThru", "returned"}
      /\ NoCall("GetPolicy")
      /\ NoCall("ValidateCertificateRequest")
      /\ \A fn \in DecodeCalls : NoCall(fn)

C8_Witness ==
    /\ pc = "returned"
    /\ Target = acmpcaListCertificateAuthorities
    /\ request.Body.json
    /\ request.Body.VenafiZone.val = "Ghost"
    /\ Len(passThruArgs) = 1
    /\ ~NoCall("Send")

\* C9: within one invocation GetPolicy is called at most once and Send at
\* most once; in a gated flow a failed Send ends the request at once with 500
\* and the backend's error in the message.
C9_NoRetry ==
    /\ Cardinality(CallsOf("GetPolicy")) <= 1
    /\ Cardinality(CallsOf("Send")) <= 1
    /\ Gated =>
         \A i \in FailedCallsOf("Send") :
           /\ pc = "returned"
           /\ response = [StatusCode |-> StatusInternalServerError,
                          Body |-> <<EnvelopeOpen, "could not get certificate response: ",
                                     trace[i].err, EnvelopeClose>>]

C9_Witness ==
    /\ pc = "returned"
    /\ Target = acmpcaIssueCertificate
    /\ FailedCallsOf("Send") # {}
    /\ Cardinality(CallsOf("Send")) = 1
    /\ response.StatusCode = StatusInternalServerError

\* The calls of a gated request that succeeds, in order; LoadDefaultAWSConfig
\* is not among the conditions of the claim.
SuccessOrder(decodeCalls) ==
    /\ \A i \in 1..Len(trace) : trace[i].fn # "LoadDefaultAWSConfig" => trace[i].err = ""
    /\ [i \in 1..Len(trace) |-> trace[i].fn] =
         decodeCalls \o <<"GetPolicy", "ValidateCertificateRequest",
                          "LoadDefaultAWSConfig", "Send", "json.Marshal">>

\* C10 (as claimed): a gated request that is over has either status 200,
\* after decoding, GetPolicy, validation and Send succeeded in this order,
\* with the serialized backend response as body, or a non-200 status with a
\* body in the { "msg" : "..." } envelope.
C10_Only200AfterAllSteps ==
    (Gated /\ Ended) =>
      IF response.StatusCode = StatusOK
      THEN /\ pc = "returned"
           /\ SuccessOrder(IF Target = acmpcaIssueCertificate
                           THEN <<"json.Unmarshal", "base64.DecodeString", "SetCSR">>
                           ELSE <<"json.Unmarshal">>)
           /\ response.Body = MarshalJSON(backendResp)
      ELSE /\ pc = "returned"
           /\ response.StatusCode # 0
           /\ IsEnvelope(response.Body)

====
